---- MODULE Spec2Model ----
(***************************************************************************)
(* Model of the shared core of the Tableau REST client:                    *)
(*   - PartialStream            (src/partial_stream.py)                    *)
(*   - ClientRegistry           (src/client_registry.py)                   *)
(*   - TableauApiClient         (src/tableau_api_client.py): endpoint      *)
(*     metadata, version negotiation, capability gate, envelope codec.     *)
(***************************************************************************)
EXTENDS Integers, Sequences, FiniteSets, TLC

VARIABLES
    \* ---- PartialStream and its source (a BytesIO-like stream) ----
    srcData,        \* contents of the source stream, a sequence of bytes
    srcPos,         \* position of the source stream
    srcSeekable,    \* whether the source supports seek (length probe)
    startPos,       \* PartialStream._start_pos
    maxBytes,       \* PartialStream._max_bytes
    viewClosed,     \* the view has been closed
    srcClosed,      \* the source has been closed
    ret,            \* result of the last stream operation
    \* ---- ClientRegistry and the class-level endpoint metadata ----
    classDefs,      \* the loaded classes: class name -> its functions, sorted by name
    clients,        \* ClientRegistry._clients, in insertion order
    minVersionForEndpoints,  \* TableauApiClient._MIN_VERSION_FOR_ENDPOINTS
    onPremiseOnlyEndpoints,  \* TableauApiClient._ON_PREMISE_ONLY_ENDPOINTS
    initDone,       \* a call of _initialize_endpoint_metadata has completed
    \* ---- threads running _initialize_endpoint_metadata concurrently ----
    tpc,            \* thread -> position in the method
    titems,         \* thread -> the members it iterates over
    tidx,           \* thread -> index of the member being inspected
    \* ---- a TableauApiClient instance and its gated calls ----
    client,         \* the last constructed client
    ctor,           \* the last constructor call and its outcome
    gate,           \* the last gated call: key, outcome, transport invocations
    \* ---- the envelope codec ----
    reqSlots,       \* the fields of TsRequest, in declaration order
    respSlots,      \* the fields of TsResponse, in declaration order
    doc,            \* the document at hand: a response received or a request built
    enc,            \* the last _get_object_as_request_content call and its outcome
    dec             \* the last _get_response_as_object(s) call and its outcome

streamVars == <<srcData, srcPos, srcSeekable, startPos, maxBytes, viewClosed, srcClosed, ret>>
metaVars == <<classDefs, clients, minVersionForEndpoints, onPremiseOnlyEndpoints, initDone>>
raceVars == <<tpc, titems, tidx>>
clientVars == <<client, ctor, gate>>
codecVars == <<reqSlots, respSlots, doc, enc, dec>>

vars == <<srcData, srcPos, srcSeekable, startPos, maxBytes, viewClosed, srcClosed, ret,
          classDefs, clients, minVersionForEndpoints, onPremiseOnlyEndpoints, initDone,
          tpc, titems, tidx, client, ctor, gate,
          reqSlots, respSlots, doc, enc, dec>>

----------------------------------------------------------------------------
\* Generic helpers

Min(a, b) == IF a <= b THEN a ELSE b
Max(a, b) == IF a >= b THEN a ELSE b

\* All sequences over S of length 0..n
SeqsUpTo(S, n) == UNION {[1..k -> S] : k \in 0..n}

----------------------------------------------------------------------------
\* Bounds of the client model

MaxOnPremLen == 3   \* _initialize_endpoint_metadata is not called on a longer list
MaxSends == 1       \* transport invocations explored per gated call
MaxMajor == 4       \* largest major version requested
MaxMinor == 24      \* largest minor version requested
MaxId == 2          \* distinct payload contents
MaxElems == 2       \* longest response document, in elements

----------------------------------------------------------------------------
\* Names are sequences of characters; a version is a pair <<major, minor>>

MainClass == "TableauApiClient"
SubClasses == {"ClsA", "ClsB"}
ClientTypes == {<<"a">>, <<"j">>}

NoVersion == <<>>       \* the function carries no _min_api_version
NoNamespace == <<>>     \* None

\* Python tuple comparison of two versions (lexicographic)
VersionLess(a, b) == a[1] < b[1] \/ (a[1] = b[1] /\ a[2] < b[2])
\* a comparison taken field by field
VersionGreaterFieldwise(a, b) == a[1] > b[1] /\ a[2] > b[2]
VersionGreater(a, b) == VersionLess(b, a)

\* name.startswith('_')
IsPrivate(name) == Len(name) > 0 /\ name[1] = "_"

\* f"{client_type}.{name}"
FullName(client_type, name) == client_type \o <<".">> \o name

----------------------------------------------------------------------------
\* ClientRegistry

\* position of client_type in the registry, 0 when it is not registered
RegistryIndex(reg, client_type) ==
    IF \E i \in 1..Len(reg) : reg[i].type = client_type
    THEN CHOOSE i \in 1..Len(reg) : reg[i].type = client_type
    ELSE 0

\* cls._clients[client_type] = client_class
RegistryPut(reg, client_type, cls) ==
    LET i == RegistryIndex(reg, client_type)
    IN IF i = 0 THEN Append(reg, [type |-> client_type, cls |-> cls])
       ELSE [reg EXCEPT ![i].cls = cls]

\* ClientRegistry.register(client_type)(client_class)
Register(client_type, cls) ==
    /\ clients' = RegistryPut(clients, client_type, cls)
    /\ gate' = [name |-> <<>>, ns |-> <<>>, key |-> <<>>, outcome |-> "none",
                sent |-> 0, resp |-> "none"]
    /\ UNCHANGED <<classDefs, minVersionForEndpoints, onPremiseOnlyEndpoints, initDone>>
    /\ UNCHANGED <<streamVars, codecVars, raceVars, client, ctor>>

----------------------------------------------------------------------------
\* TableauApiClient._initialize_endpoint_metadata

\* the functions of the main class, every one of them, keyed by bare name
MainItems ==
    [i \in 1..Len(classDefs[MainClass]) |->
        [key |-> classDefs[MainClass][i].name,
         min |-> classDefs[MainClass][i].min,
         onprem |-> classDefs[MainClass][i].onprem]]

\* the public functions of one registered class, keyed "client_type.name"
ClientItems(entry) ==
    LET pub == SelectSeq(classDefs[entry.cls], LAMBDA m : ~IsPrivate(m.name))
    IN [i \in 1..Len(pub) |->
          [key |-> FullName(entry.type, pub[i].name),
           min |-> pub[i].min,
           onprem |-> pub[i].onprem]]

RECURSIVE RegistryItems(_)
RegistryItems(reg) ==
    IF reg = <<>> THEN <<>>
    ELSE ClientItems(Head(reg)) \o RegistryItems(Tail(reg))

\* the members the method inspects, in the order it inspects them
ScanList(reg) == MainItems \o RegistryItems(reg)

\* cls._MIN_VERSION_FOR_ENDPOINTS[key] = method._min_api_version
SetMinVersion(minMap, item) ==
    IF item.min # NoVersion
    THEN [k \in DOMAIN minMap \cup {item.key} |->
            IF k = item.key THEN item.min ELSE minMap[k]]
    ELSE minMap

\* cls._ON_PREMISE_ONLY_ENDPOINTS.append(key)
AppendOnPremise(onpList, item) ==
    IF item.onprem THEN Append(onpList, item.key) ELSE onpList

RECURSIVE ScanAll(_, _)
ScanAll(maps, items) ==
    IF items = <<>> THEN maps
    ELSE ScanAll([min |-> SetMinVersion(maps.min, Head(items)),
                  onp |-> AppendOnPremise(maps.onp, Head(items))], Tail(items))

\* a guard that never finds the maps built
AlreadyInitializedNever(minMap) == FALSE

\* "if cls._MIN_VERSION_FOR_ENDPOINTS: return"
AlreadyInitialized(minMap) == DOMAIN minMap # {}

\* one whole, uninterrupted call of the method
InitializeEndpointMetadata(maps, reg) ==
    IF AlreadyInitialized(maps.min) THEN maps ELSE ScanAll(maps, ScanList(reg))

EmptyMap == [k \in {} |-> NoVersion]
EmptyMaps == [min |-> EmptyMap, onp |-> <<>>]
CurrentMaps == [min |-> minVersionForEndpoints, onp |-> onPremiseOnlyEndpoints]

\* TableauApiClient._initialize_endpoint_metadata() called on the class
InitializeCall ==
    /\ Len(onPremiseOnlyEndpoints) <= MaxOnPremLen
    /\ LET m == InitializeEndpointMetadata(CurrentMaps, clients)
       IN /\ minVersionForEndpoints' = m.min
          /\ onPremiseOnlyEndpoints' = m.onp
    /\ initDone' = TRUE
    /\ UNCHANGED <<classDefs, clients>>
    /\ UNCHANGED <<streamVars, codecVars, raceVars, clientVars>>

----------------------------------------------------------------------------
\* Two threads inside _initialize_endpoint_metadata at once.  The dict store
\* and the list append are each atomic; a thread switch may come between any
\* two of them.

Threads == {1, 2}

\* "if cls._MIN_VERSION_FOR_ENDPOINTS: return", then the loops start
ThreadCheck(t) ==
    /\ tpc[t] = "check"
    /\ IF AlreadyInitialized(minVersionForEndpoints)
       THEN /\ tpc' = [tpc EXCEPT ![t] = "done"]
            /\ UNCHANGED <<titems, tidx>>
       ELSE /\ titems' = [titems EXCEPT ![t] = ScanList(clients)]
            /\ tidx' = [tidx EXCEPT ![t] = 1]
            /\ tpc' = [tpc EXCEPT ![t] = IF ScanList(clients) = <<>> THEN "done" ELSE "min"]
    /\ UNCHANGED <<metaVars, streamVars, codecVars, clientVars>>

\* the _min_api_version branch for the current member
ThreadSetMin(t) ==
    /\ tpc[t] = "min"
    /\ minVersionForEndpoints' = SetMinVersion(minVersionForEndpoints, titems[t][tidx[t]])
    /\ tpc' = [tpc EXCEPT ![t] = "onp"]
    /\ UNCHANGED <<classDefs, clients, onPremiseOnlyEndpoints, initDone, titems, tidx>>
    /\ UNCHANGED <<streamVars, codecVars, clientVars>>

\* the _on_premise_only branch for the current member, then the next member
ThreadAppend(t) ==
    /\ tpc[t] = "onp"
    /\ onPremiseOnlyEndpoints' = AppendOnPremise(onPremiseOnlyEndpoints, titems[t][tidx[t]])
    /\ IF tidx[t] < Len(titems[t])
       THEN /\ tidx' = [tidx EXCEPT ![t] = tidx[t] + 1]
            /\ tpc' = [tpc EXCEPT ![t] = "min"]
       ELSE /\ tpc' = [tpc EXCEPT ![t] = "done"]
            /\ UNCHANGED tidx
    /\ UNCHANGED <<classDefs, clients, minVersionForEndpoints, initDone, titems>>
    /\ UNCHANGED <<streamVars, codecVars, clientVars>>

----------------------------------------------------------------------------
\* TableauApiClient construction

MIN_VERSION == <<2, 0>>
MAX_VERSION == <<3, 23>>
DEFAULT_TIMEOUT == 300      \* timedelta(minutes=5), in seconds

NoClient == [exists |-> FALSE, host |-> <<>>, api_version |-> <<0, 0>>,
             timeout |-> 0, subclients |-> <<>>]
NoCtor == [uri |-> [kind |-> "none", scheme |-> "none", host |-> <<>>],
           version |-> <<>>, timeout |-> [kind |-> "none", secs |-> 0], err |-> "none"]
NoGate == [name |-> <<>>, ns |-> <<>>, key |-> <<>>, outcome |-> "none",
           sent |-> 0, resp |-> "none"]

\* urlparse(...).hostname: the host in lower case, split at the dots here
LowerLabel(l) == IF l = "TABLEAU" THEN "tableau" ELSE IF l = "COM" THEN "com" ELSE l
Hostname(uri) == [i \in 1..Len(uri.host) |-> LowerLabel(uri.host[i])]

\* a part of api_version.split('.'): int is whether int() accepts it, val its value
IsIntPart(p) == p.int

\* the version parts are parsed: int(parts[0]), int(parts[1]) when present
VersionParses(parts) ==
    /\ IsIntPart(parts[1])
    /\ Len(parts) > 1 => IsIntPart(parts[2])

\* version_tuple = (major, minor)
VersionTuple(parts) == <<parts[1].val, IF Len(parts) > 1 THEN parts[2].val ELSE 0>>

\* a negotiation that forgets the ceiling
NegotiateVersionUnclamped(v) == v

\* the version the client settles on, for a version_tuple not below the minimum
NegotiateVersion(v) ==
    IF v[1] <= MAX_VERSION[1] /\ v[2] <= MAX_VERSION[2] THEN v ELSE MAX_VERSION

\* a validation that leaves the minimum-version test out
CtorErrorNoMinimum(uri, parts, tmo) ==
    IF uri.kind = "empty" THEN "ValueError"
    ELSE IF uri.kind = "nonstr" THEN "ValueError"
    ELSE IF ~VersionParses(parts) THEN "ValueError"
    ELSE IF tmo.kind = "other" THEN "TypeError"
    ELSE "none"

\* the error __init__ raises, "none" when construction goes through
CtorError(uri, parts, tmo) ==
    IF uri.kind = "empty" THEN "ValueError"
    ELSE IF uri.kind = "nonstr" THEN "ValueError"
    ELSE IF ~VersionParses(parts) THEN "ValueError"
    ELSE IF VersionLess(VersionTuple(parts), MIN_VERSION) THEN "ValueError"
    ELSE IF tmo.kind = "other" THEN "TypeError"
    ELSE "none"

\* self.timeout, in seconds
TimeoutOf(tmo) == IF tmo.kind = "none" THEN DEFAULT_TIMEOUT ELSE tmo.secs

\* _initialize_client_instances: one attribute per registered client whose
\* constructor did not raise
ClientInstances(reg, failed) ==
    LET ok == SelectSeq(reg, LAMBDA e : e.type \notin failed)
    IN [i \in 1..Len(ok) |-> ok[i].type]

\* TableauApiClient(tableau_base_uri, api_version=..., timeout=...)
Construct(uri, parts, tmo, failed) ==
    /\ Len(onPremiseOnlyEndpoints) <= MaxOnPremLen
    /\ failed \subseteq {clients[i].type : i \in 1..Len(clients)}
    /\ LET err == CtorError(uri, parts, tmo)
       IN /\ ctor' = [uri |-> uri, version |-> parts, timeout |-> tmo, err |-> err]
          /\ IF err # "none"
             THEN UNCHANGED <<client, minVersionForEndpoints, onPremiseOnlyEndpoints, initDone>>
             ELSE /\ client' = [exists |-> TRUE,
                             host |-> Hostname(uri),
                             api_version |-> NegotiateVersion(VersionTuple(parts)),
                             timeout |-> TimeoutOf(tmo),
                             subclients |-> ClientInstances(clients, failed)]
                  /\ LET m == InitializeEndpointMetadata(CurrentMaps, clients)
                     IN /\ minVersionForEndpoints' = m.min
                        /\ onPremiseOnlyEndpoints' = m.onp
                  /\ initDone' = TRUE
    /\ gate' = NoGate
    /\ UNCHANGED <<classDefs, clients>>
    /\ UNCHANGED <<streamVars, codecVars, raceVars>>

----------------------------------------------------------------------------
\* The capability gate

\* _is_online(): the host name ends with ".tableau.com"
IsOnline(host) ==
    IF host = <<>> THEN FALSE
    ELSE /\ Len(host) >= 3
         /\ host[Len(host) - 1] = "tableau"
         /\ host[Len(host)] = "com"

\* the registered name of class cls, NoNamespace when it is not registered
RegisteredName(reg, cls) ==
    IF \E i \in 1..Len(reg) : reg[i].cls = cls
    THEN reg[CHOOSE i \in 1..Len(reg) :
                /\ reg[i].cls = cls
                /\ \A j \in 1..(i - 1) : reg[j].cls # cls].type
    ELSE NoNamespace

\* a detection that looks at the immediate caller only
DetectClientNamespaceFirstFrame(frames, reg) ==
    IF frames = <<>> THEN NoNamespace ELSE RegisteredName(reg, Head(frames).recv)

\* _detect_client_namespace(): frames lists the callers of the gate from the
\* immediate caller outward, each with the class of its 'self' ("none" when
\* the frame has no 'self')
RECURSIVE DetectClientNamespace(_, _)
DetectClientNamespace(frames, reg) ==
    IF frames = <<>> THEN NoNamespace
    ELSE LET f == Head(frames)
         IN IF f.recv = "none" \/ f.recv = MainClass
            THEN DetectClientNamespace(Tail(frames), reg)
            ELSE IF RegisteredName(reg, f.recv) # NoNamespace
            THEN RegisteredName(reg, f.recv)
            ELSE DetectClientNamespace(Tail(frames), reg)

\* key = f"{submodule}.{method_name}" if submodule else method_name
EndpointKey(submodule, method_name) ==
    IF submodule # NoNamespace THEN FullName(submodule, method_name) ELSE method_name

InList(x, list) == \E i \in 1..Len(list) : list[i] = x

\* a gate that leaves the deployment check out
GateOutcomeVersionOnly(key, minMap, onpList, cl) ==
    IF key \in DOMAIN minMap /\ VersionGreater(minMap[key], cl.api_version)
    THEN "TableauApiVersionException"
    ELSE "passed"

\* what _check_endpoint_availability does for a key: the exception it raises
GateOutcome(key, minMap, onpList, cl) ==
    IF key \in DOMAIN minMap /\ VersionGreater(minMap[key], cl.api_version)
    THEN "TableauApiVersionException"
    ELSE IF InList(key, onpList) /\ IsOnline(cl.host)
    THEN "TableauOnlineNotSupportedException"
    ELSE "passed"

\* _check_endpoint_availability(method_name) called through the frames
CheckEndpointAvailability(method_name, frames) ==
    /\ client.exists
    /\ LET name == IF method_name = <<>> THEN frames[1].func ELSE method_name
           submodule == DetectClientNamespace(frames, clients)
           key == EndpointKey(submodule, name)
       IN gate' = [name |-> name, ns |-> submodule, key |-> key,
                   outcome |-> GateOutcome(key, minVersionForEndpoints,
                                           onPremiseOnlyEndpoints, client),
                   sent |-> 0, resp |-> "none"]
    /\ UNCHANGED <<client, ctor>>
    /\ UNCHANGED <<metaVars, streamVars, codecVars, raceVars>>

\* a gated operation goes on to its request only when the gate did not raise
GatedCallProceeds == gate.outcome = "passed"

\* _api_request(...): the transport is invoked once; resp is what comes back
ApiRequest(resp) ==
    /\ client.exists
    /\ GatedCallProceeds
    /\ gate.sent < MaxSends
    /\ gate' = [gate EXCEPT !.sent = gate.sent + 1, !.resp = resp]
    /\ UNCHANGED <<client, ctor>>
    /\ UNCHANGED <<metaVars, streamVars, codecVars, raceVars>>

----------------------------------------------------------------------------
\* The envelope codec.  A payload object is [type, id]: its class and its
\* contents.  An envelope is one value per slot: nothing, an object, or a list.

PayloadTypes == {"TypeX", "TypeY", "TypeZ", "TypeW"}

\* type(obj).__name__ of the payload classes
ClassName(t) ==
    IF t = "TypeX" THEN <<"A", "T", "y", "p", "e">>
    ELSE IF t = "TypeY" THEN <<"B", "_", "T", "y", "p", "e">>
    ELSE IF t = "TypeZ" THEN <<"Z", "e", "d">>
    ELSE <<"T", "y", "p", "e">>

Absent == [type |-> "None", id |-> 0]     \* None
NoDoc == [wellFormed |-> TRUE, prolog |-> FALSE, rootAttrs |-> FALSE, selfClosed |-> FALSE,
          elems |-> <<>>]
NoEnc == [obj |-> Absent, slot |-> 0, env |-> <<>>, err |-> "none"]
NoDec == [op |-> "none", t1 |-> "None", t2 |-> "None", r1 |-> Absent, r2 |-> Absent,
          err |-> "none", content |-> NoDoc, env |-> <<>>]

\* isinstance(obj, cls): the payload classes are unrelated dataclasses
IsInstance(obj, cls) == obj.type = cls

\* TsRequest() / an envelope with nothing set: list fields start as empty lists
EmptyEnvelope(slots) ==
    [i \in 1..Len(slots) |->
        [kind |-> IF slots[i].list THEN "list" ELSE "none", items |-> <<>>]]

\* str.lower()
LowerChar(c) ==
    IF c = "A" THEN "a" ELSE IF c = "B" THEN "b" ELSE IF c = "T" THEN "t"
    ELSE IF c = "Z" THEN "z" ELSE c
LowerName(n) == [i \in 1..Len(n) |-> LowerChar(n[i])]

\* str.replace(pat, '')
RECURSIVE RemoveAll(_, _)
RemoveAll(n, pat) ==
    IF Len(n) < Len(pat) THEN n
    ELSE IF SubSeq(n, 1, Len(pat)) = pat
    THEN RemoveAll(SubSeq(n, Len(pat) + 1, Len(n)), pat)
    ELSE <<Head(n)>> \o RemoveAll(Tail(n), pat)

\* a in b, for strings
Contains(a, b) ==
    /\ Len(a) <= Len(b)
    /\ \E i \in 0..(Len(b) - Len(a)) : SubSeq(b, i + 1, i + Len(a)) = a

\* first index of seq 1..n satisfying P, 0 when there is none
FirstIndex(n, P(_)) ==
    IF \E i \in 1..n : P(i)
    THEN CHOOSE i \in 1..n : P(i) /\ \A j \in 1..(i - 1) : ~P(j)
    ELSE 0

\* a match that takes the first field whatever its type
TypeSlotFirstField(slots, obj) == IF Len(slots) > 0 THEN 1 ELSE 0

\* the first field whose type (Optional and List unwrapped) matches the object
TypeSlot(slots, obj) ==
    FirstIndex(Len(slots),
        LAMBDA i : \/ IsInstance(obj, slots[i].type)
                   \/ ClassName(obj.type) = ClassName(slots[i].type))

\* a fallback that settles on the first field whatever its name
NameSlotFirstField(slots, obj) == IF Len(slots) > 0 THEN 1 ELSE 0

\* the fallback: the first field whose name overlaps the cleaned type name
NameSlot(slots, obj) ==
    LET obj_type_name == LowerName(ClassName(obj.type))
        obj_name_clean == RemoveAll(RemoveAll(obj_type_name, <<"t", "y", "p", "e">>), <<"_">>)
    IN FirstIndex(Len(slots),
        LAMBDA i : LET field_name == LowerName(slots[i].name)
                       field_name_clean == RemoveAll(field_name, <<"_">>)
                   IN \/ Contains(obj_name_clean, field_name_clean)
                      \/ Contains(field_name_clean, obj_name_clean)
                      \/ field_name = obj_name_clean)

\* the field the object is set on, 0 when neither way finds one
ChosenSlot(slots, obj) ==
    IF TypeSlot(slots, obj) # 0 THEN TypeSlot(slots, obj) ELSE NameSlot(slots, obj)

\* setattr(ts_request, field.name, obj)
SetSlot(env, i, obj) == [env EXCEPT ![i] = [kind |-> "obj", items |-> <<obj>>]]

\* the elements one slot renders to
SlotElems(slot, value) ==
    [k \in 1..Len(value.items) |->
        [name |-> slot.name, prefixed |-> FALSE, id |-> value.items[k].id]]

RECURSIVE RenderElems(_, _, _)
RenderElems(slots, env, i) ==
    IF i > Len(slots) THEN <<>>
    ELSE SlotElems(slots[i], env[i]) \o RenderElems(slots, env, i + 1)

\* xml_serializer.render(ts_request): prolog, root with its declarations,
\* one element per populated slot value
Render(slots, env) ==
    [wellFormed |-> TRUE, prolog |-> TRUE, rootAttrs |-> TRUE,
     selfClosed |-> RenderElems(slots, env, 1) = <<>>,
     elems |-> RenderElems(slots, env, 1)]

\* the rewrites after rendering: drop the prolog, strip the root's attributes
\* (which takes the "/" of a self-closing root with them), close it again
PostProcess(d) ==
    [d EXCEPT !.prolog = FALSE, !.rootAttrs = FALSE,
              !.selfClosed = d.elems = <<>>]

\* _read_response_string: namespace declarations and prefixes are removed
ReadResponseString(d) ==
    [d EXCEPT !.rootAttrs = FALSE,
              !.elems = [k \in 1..Len(d.elems) |-> [d.elems[k] EXCEPT !.prefixed = FALSE]]]

\* the field an element binds to, 0 when no field has its name
ElemSlot(slots, e) ==
    IF e.prefixed THEN 0
    ELSE FirstIndex(Len(slots), LAMBDA i : slots[i].name = e.name)

\* xml_parser.parse raises: malformed text, or an element no field binds
ParseFails(d, slots) ==
    \/ ~d.wellFormed
    \/ \E k \in 1..Len(d.elems) : ElemSlot(slots, d.elems[k]) = 0

\* xml_parser.parse(reader, TsResponse): every element becomes an object of
\* its field's declared type; a list field collects, a plain field keeps the last
Parse(d, slots) ==
    [i \in 1..Len(slots) |->
        LET mine == SelectSeq(d.elems, LAMBDA e : ElemSlot(slots, e) = i)
            objs == [k \in 1..Len(mine) |-> [type |-> slots[i].type, id |-> mine[k].id]]
        IN IF slots[i].list THEN [kind |-> "list", items |-> objs]
           ELSE IF objs = <<>> THEN [kind |-> "none", items |-> <<>>]
           ELSE [kind |-> "obj", items |-> <<objs[Len(objs)]>>]]

\* the scan of _get_response_as_object: first direct value or list element,
\* in field order, that is an instance of target_class
RECURSIVE ScanOne(_, _, _)
ScanOne(env, i, target) ==
    IF i > Len(env) THEN Absent
    ELSE LET hit == FirstIndex(Len(env[i].items),
                        LAMBDA k : IsInstance(env[i].items[k], target))
         IN IF env[i].kind # "none" /\ hit # 0 THEN env[i].items[hit]
            ELSE ScanOne(env, i + 1, target)

\* an elif branch that stores into the first result
TakeIntoFirst(r, item, t1, t2) ==
    IF r.r1 = Absent /\ IsInstance(item, t1) THEN [r EXCEPT !.r1 = item]
    ELSE IF r.r2 = Absent /\ IsInstance(item, t2) THEN [r EXCEPT !.r1 = item]
    ELSE r

\* the if/elif of _get_response_as_objects applied to one value
Take(r, item, t1, t2) ==
    IF r.r1 = Absent /\ IsInstance(item, t1) THEN [r EXCEPT !.r1 = item]
    ELSE IF r.r2 = Absent /\ IsInstance(item, t2) THEN [r EXCEPT !.r2 = item]
    ELSE r

RECURSIVE TakeAll(_, _, _, _)
TakeAll(r, items, t1, t2) ==
    IF items = <<>> THEN r
    ELSE TakeAll(Take(r, Head(items), t1, t2), Tail(items), t1, t2)

\* the scan of _get_response_as_objects, leaving once both are found
RECURSIVE ScanTwo(_, _, _, _, _)
ScanTwo(env, i, t1, t2, r) ==
    IF i > Len(env) THEN r
    ELSE IF env[i].kind = "none" THEN ScanTwo(env, i + 1, t1, t2, r)
    ELSE LET r2 == TakeAll(r, env[i].items, t1, t2)
         IN IF r2.r1 # Absent /\ r2.r2 # Absent THEN r2
            ELSE ScanTwo(env, i + 1, t1, t2, r2)

\* _get_object_as_request_content(obj)
GetObjectAsRequestContent(obj) ==
    /\ LET i == ChosenSlot(reqSlots, obj)
           env == SetSlot(EmptyEnvelope(reqSlots), i, obj)
       IN IF i = 0
          THEN /\ enc' = [obj |-> obj, slot |-> 0, env |-> EmptyEnvelope(reqSlots),
                          err |-> "ValueError"]
               /\ UNCHANGED doc
          ELSE /\ enc' = [obj |-> obj, slot |-> i, env |-> env, err |-> "none"]
               /\ doc' = PostProcess(Render(reqSlots, env))
    /\ dec' = NoDec
    /\ UNCHANGED <<reqSlots, respSlots>>
    /\ UNCHANGED <<streamVars, metaVars, raceVars, clientVars>>

\* _get_response_as_object(content, target_class) on the document at hand
GetResponseAsObject(target) ==
    /\ LET cleaned == ReadResponseString(doc)
       IN IF ParseFails(cleaned, respSlots)
          THEN dec' = [op |-> "one", t1 |-> target, t2 |-> "None", r1 |-> Absent,
                       r2 |-> Absent, err |-> "ParserError", content |-> doc, env |-> <<>>]
          ELSE dec' = [op |-> "one", t1 |-> target, t2 |-> "None",
                       r1 |-> ScanOne(Parse(cleaned, respSlots), 1, target),
                       r2 |-> Absent, err |-> "none", content |-> doc,
                       env |-> Parse(cleaned, respSlots)]
    /\ UNCHANGED <<reqSlots, respSlots, doc, enc>>
    /\ UNCHANGED <<streamVars, metaVars, raceVars, clientVars>>

\* _get_response_as_objects(content, target_class1, target_class2)
GetResponseAsObjects(t1, t2) ==
    /\ LET cleaned == ReadResponseString(doc)
       IN IF ParseFails(cleaned, respSlots)
          THEN dec' = [op |-> "two", t1 |-> t1, t2 |-> t2, r1 |-> Absent, r2 |-> Absent,
                       err |-> "none", content |-> doc, env |-> <<>>]
          ELSE LET r == ScanTwo(Parse(cleaned, respSlots), 1, t1, t2,
                                [r1 |-> Absent, r2 |-> Absent])
               IN dec' = [op |-> "two", t1 |-> t1, t2 |-> t2, r1 |-> r.r1, r2 |-> r.r2,
                          err |-> "none", content |-> doc,
                          env |-> Parse(cleaned, respSlots)]
    /\ UNCHANGED <<reqSlots, respSlots, doc, enc>>
    /\ UNCHANGED <<streamVars, metaVars, raceVars, clientVars>>

----------------------------------------------------------------------------
\* Bounds of the stream model

MaxSrcLen == 3      \* longest source contents
MaxStart  == 2      \* largest source position at construction
MaxBytesBound == 3  \* largest max_bytes
MaxOff    == 2      \* largest |offset| given to seek
MaxPos    == 4      \* largest source position explored
MaxSize   == 3      \* largest size given to read/readline

\* byte values: 0 (padding written by the source), 10 (newline), 65 (other)
Bytes == {0, 10, 65}
WriteData == {<<65>>, <<10>>}

NoRet == [op |-> "none", data |-> <<>>, from |-> 0, err |-> "none"]

----------------------------------------------------------------------------
\* The source stream (io.BytesIO semantics)

\* src.read(n), n > 0: the bytes at [pos, pos+n) that exist
SrcReadLen(data, pos, n) == IF pos >= Len(data) THEN 0 ELSE Min(n, Len(data) - pos)

\* src.write(d) at pos: pads with zero bytes when pos is past the end
SrcWrite(data, pos, d) ==
    LET newLen == Max(Len(data), pos + Len(d))
    IN [i \in 1..newLen |->
          IF i > pos /\ i <= pos + Len(d) THEN d[i - pos]
          ELSE IF i <= Len(data) THEN data[i]
          ELSE 0]

----------------------------------------------------------------------------
\* PartialStream

\* tell(): position relative to the start position
Tell == srcPos - startPos

\* _get_length(): effective length of the view
GetLength ==
    IF srcSeekable
    THEN Min(maxBytes, Max(0, Len(srcData) - startPos))
    ELSE maxBytes

\* a clamp that passes a given size through unchanged
ClampSizeNoLimit(size) ==
    IF Tell >= GetLength THEN 0
    ELSE IF size = -1 THEN GetLength - Tell ELSE size

\* size actually requested from the source by read/readline
ClampSize(size) ==
    IF Tell >= GetLength THEN 0
    ELSE LET remaining == GetLength - Tell
         IN IF size = -1 THEN remaining ELSE Min(size, remaining)

\* a SEEK_END that counts from the end of the source, not of the view
SeekTargetFromSourceEnd(offset, whence) ==
    IF whence = 0 THEN startPos + offset
    ELSE IF whence = 1 THEN Max(0, srcPos + offset)
    ELSE Len(srcData) + offset

\* seek(offset, whence)
SeekTarget(offset, whence) ==
    IF whence = 0 THEN startPos + offset
    ELSE IF whence = 1 THEN Max(0, srcPos + offset)
    ELSE startPos + GetLength + offset

Seek(offset, whence) ==
    /\ (whence \in {0, 1, 2} /\ srcSeekable) => SeekTarget(offset, whence) <= MaxPos
    /\ LET target == SeekTarget(offset, whence)
       IN IF whence \notin {0, 1, 2}
          THEN /\ ret' = [op |-> "seek", data |-> <<>>, from |-> srcPos, err |-> "ValueError"]
               /\ UNCHANGED srcPos
          ELSE IF ~srcSeekable
          THEN /\ ret' = [op |-> "seek", data |-> <<>>, from |-> srcPos, err |-> "UnsupportedOperation"]
               /\ UNCHANGED srcPos
          ELSE IF target < 0
          THEN /\ ret' = [op |-> "seek", data |-> <<>>, from |-> srcPos, err |-> "ValueError"]
               /\ UNCHANGED srcPos
          ELSE /\ srcPos' = target
               /\ ret' = [op |-> "seek", data |-> <<>>, from |-> target, err |-> "none"]
    /\ UNCHANGED <<srcData, srcSeekable, startPos, maxBytes, viewClosed, srcClosed>>
    /\ UNCHANGED <<metaVars, raceVars, clientVars, codecVars>>

\* read(size)
Read(size) ==
    /\ LET n == ClampSize(size)
           got == IF n <= 0 THEN 0 ELSE SrcReadLen(srcData, srcPos, n)
       IN /\ ret' = [op |-> "read", data |-> SubSeq(srcData, srcPos + 1, srcPos + got),
                     from |-> srcPos, err |-> "none"]
          /\ srcPos' = srcPos + got
    /\ UNCHANGED <<srcData, srcSeekable, startPos, maxBytes, viewClosed, srcClosed>>
    /\ UNCHANGED <<metaVars, raceVars, clientVars, codecVars>>

\* a line scan that does not look for the newline
LineLenWhole(data, pos, n) ==
    IF n <= 0 \/ pos >= Len(data) THEN 0 ELSE Min(n, Len(data) - pos)

\* number of bytes readline consumes: up to n single-byte reads, stopping
\* after a newline or at the end of the source
RECURSIVE LineLen(_, _, _)
LineLen(data, pos, n) ==
    IF n <= 0 \/ pos >= Len(data) THEN 0
    ELSE IF data[pos + 1] = 10 THEN 1
    ELSE 1 + LineLen(data, pos + 1, n - 1)

\* readline(size)
Readline(size) ==
    /\ LET n == ClampSize(size)
           got == IF n <= 0 THEN 0 ELSE LineLen(srcData, srcPos, n)
       IN /\ ret' = [op |-> "readline", data |-> SubSeq(srcData, srcPos + 1, srcPos + got),
                     from |-> srcPos, err |-> "none"]
          /\ srcPos' = srcPos + got
    /\ UNCHANGED <<srcData, srcSeekable, startPos, maxBytes, viewClosed, srcClosed>>
    /\ UNCHANGED <<metaVars, raceVars, clientVars, codecVars>>

\* write(data): passed through to the source
Write(d) ==
    /\ srcPos + Len(d) <= MaxSrcLen
    /\ srcData' = SrcWrite(srcData, srcPos, d)
    /\ srcPos' = srcPos + Len(d)
    /\ ret' = [op |-> "write", data |-> d, from |-> srcPos, err |-> "none"]
    /\ UNCHANGED <<srcSeekable, startPos, maxBytes, viewClosed, srcClosed>>
    /\ UNCHANGED <<metaVars, raceVars, clientVars, codecVars>>

\* a close that closes the source with the view
CloseWithSource ==
    /\ viewClosed' = TRUE
    /\ srcClosed' = TRUE
    /\ ret' = [op |-> "close", data |-> <<>>, from |-> srcPos, err |-> "none"]
    /\ UNCHANGED <<srcData, srcPos, srcSeekable, startPos, maxBytes>>
    /\ UNCHANGED <<metaVars, raceVars, clientVars, codecVars>>

\* close(): IOBase.close flushes (through flush() to the source, which
\* moves and changes nothing) and marks the view closed; the source is
\* not closed
Close ==
    /\ viewClosed' = TRUE
    /\ ret' = [op |-> "close", data |-> <<>>, from |-> srcPos, err |-> "none"]
    /\ UNCHANGED <<srcData, srcPos, srcSeekable, startPos, maxBytes, srcClosed>>
    /\ UNCHANGED <<metaVars, raceVars, clientVars, codecVars>>


----------------------------------------------------------------------------
\* Initial conditions of the parts a specification leaves alone

MetaIdle ==
    /\ classDefs = [c \in {MainClass} \cup SubClasses |-> <<>>]
    /\ clients = <<>>
    /\ minVersionForEndpoints = EmptyMap
    /\ onPremiseOnlyEndpoints = <<>>
    /\ initDone = FALSE

RaceIdle ==
    /\ tpc = [t \in Threads |-> "idle"]
    /\ titems = [t \in Threads |-> <<>>]
    /\ tidx = [t \in Threads |-> 0]

ClientIdle ==
    /\ client = NoClient
    /\ ctor = NoCtor
    /\ gate = NoGate

StreamIdle ==
    /\ srcData = <<>>
    /\ srcPos = 0
    /\ srcSeekable = TRUE
    /\ startPos = 0
    /\ maxBytes = 0
    /\ viewClosed = FALSE
    /\ srcClosed = FALSE
    /\ ret = NoRet

CodecIdle ==
    /\ reqSlots = <<>>
    /\ respSlots = <<>>
    /\ doc = NoDoc
    /\ enc = NoEnc
    /\ dec = NoDec

----------------------------------------------------------------------------
\* The loaded classes

\* the markers a function may carry
Marks == [min : {NoVersion, <<3, 1>>}, onprem : BOOLEAN]

Fn(name, mk) == [name |-> name, min |-> mk.min, onprem |-> mk.onprem]

\* the main class has function s; ClsA has _p and q; ClsB has q
AllClassDefs ==
    {[c \in {MainClass} \cup SubClasses |->
        IF c = MainClass THEN <<Fn(<<"s">>, m1)>>
        ELSE IF c = "ClsA" THEN <<Fn(<<"_", "p">>, m2), Fn(<<"q">>, m3)>>
        ELSE <<Fn(<<"q">>, m4)>>] : m1 \in Marks, m2 \in Marks, m3 \in Marks, m4 \in Marks}

----------------------------------------------------------------------------
\* Endpoint metadata, sequential: registrations and initialisations

MetaInit ==
    /\ classDefs \in AllClassDefs
    /\ clients = <<>>
    /\ minVersionForEndpoints = EmptyMap
    /\ onPremiseOnlyEndpoints = <<>>
    /\ initDone = FALSE
    /\ StreamIdle /\ RaceIdle /\ ClientIdle /\ CodecIdle

RegisterStep == \E ct \in ClientTypes, c \in SubClasses : Register(ct, c)

MetaNext ==
    \/ RegisterStep
    \/ InitializeCall

SpecMeta == MetaInit /\ [][MetaNext]_vars

----------------------------------------------------------------------------
\* Endpoint metadata, two threads constructing the first client

RaceRegistries ==
    {<<[type |-> <<"a">>, cls |-> "ClsA"]>>,
     <<[type |-> <<"a">>, cls |-> "ClsA"], [type |-> <<"j">>, cls |-> "ClsB"]>>}

RaceInit ==
    /\ classDefs \in AllClassDefs
    /\ clients \in RaceRegistries
    /\ \E i \in 1..Len(ScanList(clients)) : ScanList(clients)[i].min # NoVersion
    /\ minVersionForEndpoints = EmptyMap
    /\ onPremiseOnlyEndpoints = <<>>
    /\ initDone = FALSE
    /\ tpc = [t \in Threads |-> "check"]
    /\ titems = [t \in Threads |-> <<>>]
    /\ tidx = [t \in Threads |-> 0]
    /\ StreamIdle /\ ClientIdle /\ CodecIdle

ThreadCheckStep == \E t \in Threads : ThreadCheck(t)
ThreadSetMinStep == \E t \in Threads : ThreadSetMin(t)
ThreadAppendStep == \E t \in Threads : ThreadAppend(t)

RaceNext ==
    \/ ThreadCheckStep
    \/ ThreadSetMinStep
    \/ ThreadAppendStep

SpecRace == RaceInit /\ [][RaceNext]_vars

----------------------------------------------------------------------------
\* Constructor inputs

\* api_version strings, split at the dots: numeric parts and parts int() rejects
Num(n) == [int |-> TRUE, val |-> n]
NotNum == [int |-> FALSE, val |-> 0]
VersionStrings ==
    {<<Num(M)>> : M \in 1..MaxMajor}
    \cup {<<Num(M), Num(m)>> : M \in 1..MaxMajor, m \in (-1)..MaxMinor}
    \cup {<<NotNum>>, <<Num(3), NotNum>>, <<Num(3), Num(1), Num(4)>>, <<Num(2), Num(0), NotNum>>}

Hosts == {<<"srv", "local">>, <<"prod", "online", "tableau", "com">>,
          <<"eu", "TABLEAU", "COM">>, <<"tableau", "com">>, <<"nottableau", "com">>}

EmptyUri == [kind |-> "empty", scheme |-> "none", host |-> <<>>]
NonStrUri == [kind |-> "nonstr", scheme |-> "none", host |-> <<>>]
Uris ==
    {EmptyUri, NonStrUri, [kind |-> "str", scheme |-> "https", host |-> <<>>]}
    \cup [kind : {"str"}, scheme : {"none", "http"}, host : Hosts]

Timeouts == {[kind |-> "none", secs |-> 0], [kind |-> "number", secs |-> 30],
             [kind |-> "timedelta", secs |-> 60], [kind |-> "other", secs |-> 0]}

----------------------------------------------------------------------------
\* Construction: one registered sub-client, one constructor call on every input

VersionClassDefs ==
    [c \in {MainClass} \cup SubClasses |->
        IF c = MainClass THEN <<Fn(<<"s">>, [min |-> <<3, 1>>, onprem |-> FALSE])>>
        ELSE IF c = "ClsA" THEN <<Fn(<<"_", "p">>, [min |-> NoVersion, onprem |-> TRUE]),
                                  Fn(<<"q">>, [min |-> <<3, 1>>, onprem |-> TRUE])>>
        ELSE <<Fn(<<"q">>, [min |-> NoVersion, onprem |-> TRUE])>>]

VersionInit ==
    /\ classDefs = VersionClassDefs
    /\ clients = <<[type |-> <<"a">>, cls |-> "ClsA"]>>
    /\ minVersionForEndpoints = EmptyMap
    /\ onPremiseOnlyEndpoints = <<>>
    /\ initDone = FALSE
    /\ client = NoClient
    /\ ctor \in [uri : Uris, version : VersionStrings, timeout : Timeouts, err : {"pending"}]
    /\ gate = NoGate
    /\ StreamIdle /\ RaceIdle /\ CodecIdle

\* the constructor call awaited in ctor is made
ConstructStep ==
    /\ ctor.err = "pending"
    /\ \E failed \in SUBSET ClientTypes : Construct(ctor.uri, ctor.version, ctor.timeout, failed)

VersionNext == ConstructStep

SpecVersion == VersionInit /\ [][VersionNext]_vars

----------------------------------------------------------------------------
\* The gate: registrations, one client, gated calls and their requests

GateMarks == [min : {NoVersion, <<3, 1>>, <<2, 9>>}, onprem : BOOLEAN]

\* ClsA carries the markers under test; the main class and ClsB are fixed
GateClassDefs ==
    {[c \in {MainClass} \cup SubClasses |->
        IF c = MainClass THEN <<Fn(<<"s">>, [min |-> <<3, 1>>, onprem |-> TRUE])>>
        ELSE IF c = "ClsA" THEN <<Fn(<<"_", "p">>, [min |-> <<3, 1>>, onprem |-> TRUE]),
                                  Fn(<<"q">>, mk)>>
        ELSE <<Fn(<<"q">>, [min |-> NoVersion, onprem |-> TRUE])>>] : mk \in GateMarks}

GateVersions == {<<Num(2), Num(7)>>, <<Num(3), Num(2)>>}
GateUris == [kind : {"str"}, scheme : {"none"},
             host : {<<"srv", "local">>, <<"eu", "TABLEAU", "COM">>, <<"tableau", "com">>}]

\* the callers of the gate: the class of each frame's 'self' and its function
Receivers == {"none", MainClass, "ClsA", "ClsB"}
Frames == [recv : Receivers, func : {<<"q">>}]
CallChains == {<<f>> : f \in Frames} \cup {<<f, g>> : f \in Frames, g \in Frames}
MethodNames == {<<>>, <<"s">>}
Responses == {"ok", "TableauRequestException"}

GateInit ==
    /\ classDefs \in GateClassDefs
    /\ clients = <<>>
    /\ minVersionForEndpoints = EmptyMap
    /\ onPremiseOnlyEndpoints = <<>>
    /\ initDone = FALSE
    /\ StreamIdle /\ RaceIdle /\ ClientIdle /\ CodecIdle

GateConstructStep ==
    \E uri \in GateUris, parts \in GateVersions :
        Construct(uri, parts, [kind |-> "none", secs |-> 0], {})

CheckStep == \E m \in MethodNames, fr \in CallChains : CheckEndpointAvailability(m, fr)
ApiRequestStep == \E r \in Responses : ApiRequest(r)

GateNext ==
    \/ RegisterStep
    \/ GateConstructStep
    \/ CheckStep
    \/ ApiRequestStep

SpecGate == GateInit /\ [][GateNext]_vars

----------------------------------------------------------------------------
\* Namespace detection: a registry as registrations left it, one client,
\* gated calls through every call chain

RegistryEntries == [type : ClientTypes, cls : SubClasses]
DetectRegistries ==
    {<<>>} \cup {<<e>> : e \in RegistryEntries}
    \cup {p \in {<<e, f>> : e \in RegistryEntries, f \in RegistryEntries} :
              p[1].type # p[2].type}

DetectInit ==
    /\ classDefs \in GateClassDefs
    /\ clients \in DetectRegistries
    /\ minVersionForEndpoints = EmptyMap
    /\ onPremiseOnlyEndpoints = <<>>
    /\ initDone = FALSE
    /\ StreamIdle /\ RaceIdle /\ ClientIdle /\ CodecIdle

DetectConstructStep ==
    \E parts \in GateVersions :
        Construct([kind |-> "str", scheme |-> "none", host |-> <<"srv", "local">>],
                  parts, [kind |-> "none", secs |-> 0], {})

DetectNext ==
    \/ DetectConstructStep
    \/ CheckStep

SpecDetect == DetectInit /\ [][DetectNext]_vars

----------------------------------------------------------------------------
\* The codec: an envelope pair, a document at hand, encodes and decodes

Slot(name, type, list) == [name |-> name, type |-> type, list |-> list]

\* (TsRequest fields, TsResponse fields)
SlotPairs ==
    {<<s, s>> : s \in {<<Slot(<<"a">>, "TypeX", FALSE), Slot(<<"b">>, "TypeY", FALSE)>>,
                       <<Slot(<<"b">>, "TypeY", FALSE), Slot(<<"a">>, "TypeX", FALSE)>>,
                       <<Slot(<<"a">>, "TypeX", FALSE), Slot(<<"b">>, "TypeY", TRUE)>>,
                       <<Slot(<<"a">>, "TypeX", TRUE), Slot(<<"b">>, "TypeY", FALSE)>>}}
    \cup {<< <<Slot(<<"a">>, "TypeX", FALSE)>>,
             <<Slot(<<"a">>, "TypeX", FALSE), Slot(<<"b">>, "TypeY", FALSE)>> >>,
          << <<Slot(<<"Z", "_", "e">>, "TypeX", FALSE)>>,
             <<Slot(<<"Z", "_", "e">>, "TypeX", FALSE)>> >>}

ObjectIds == 1..MaxId
\* payloads of the slot types with every content, of the other types with one
Objects == [type : {"TypeX", "TypeY"}, id : ObjectIds]
           \cup [type : PayloadTypes \ {"TypeX", "TypeY"}, id : {1}]
DecodeTargets == {"TypeX", "TypeY", "TypeZ"}

\* response elements: named after a slot or not ("u"), with or without prefix
Elems == [name : {<<"a">>, <<"b">>, <<"u">>}, prefixed : BOOLEAN, id : ObjectIds]
ElemSeqs == SeqsUpTo([name : {<<"a">>, <<"b">>}, prefixed : {FALSE}, id : ObjectIds], MaxElems)
            \cup {<<e>> : e \in Elems}
\* well-formed documents of every content, malformed ones of little content
ResponseDocs ==
    [wellFormed : {TRUE}, prolog : {TRUE}, rootAttrs : {TRUE}, selfClosed : {FALSE},
     elems : ElemSeqs]
    \cup [wellFormed : {FALSE}, prolog : {TRUE}, rootAttrs : {TRUE}, selfClosed : {FALSE},
          elems : {es \in ElemSeqs : Len(es) <= 1}]

CodecInit ==
    /\ \E sp \in SlotPairs : reqSlots = sp[1] /\ respSlots = sp[2]
    /\ doc \in ResponseDocs
    /\ enc = NoEnc
    /\ dec = NoDec
    /\ StreamIdle /\ MetaIdle /\ RaceIdle /\ ClientIdle

EncodeStep == \E o \in Objects : GetObjectAsRequestContent(o)
DecodeOneStep == \E t \in DecodeTargets : GetResponseAsObject(t)
DecodeTwoStep == \E t1 \in DecodeTargets, t2 \in DecodeTargets : GetResponseAsObjects(t1, t2)

CodecNext ==
    \/ EncodeStep
    \/ DecodeOneStep
    \/ DecodeTwoStep

SpecCodec == CodecInit /\ [][CodecNext]_vars

----------------------------------------------------------------------------
\* PartialStream(src, max_bytes) over a source positioned at startPos
StreamInit ==
    /\ MetaIdle /\ RaceIdle /\ ClientIdle /\ CodecIdle
    /\ srcData \in SeqsUpTo(Bytes \ {0}, MaxSrcLen)    \* zero bytes come from writes
    /\ startPos \in 0..MaxStart
    /\ srcPos = startPos
    /\ maxBytes \in 0..MaxBytesBound
    /\ srcSeekable \in BOOLEAN
    /\ viewClosed = FALSE
    /\ srcClosed = FALSE
    /\ ret = NoRet

SeekStep == \E off \in (-MaxOff)..MaxOff, w \in 0..3 : Seek(off, w)
ReadStep == \E size \in (-2)..MaxSize : Read(size)
ReadlineStep == \E size \in (-2)..MaxSize : Readline(size)
WriteStep == \E d \in WriteData : Write(d)

StreamNext ==
    \/ SeekStep
    \/ ReadStep
    \/ ReadlineStep
    \/ WriteStep
    \/ Close

SpecStream == StreamInit /\ [][StreamNext]_vars

----------------------------------------------------------------------------
\* Seeking from the end: views of up to MaxEndBytes bytes over longer sources

MaxEndLen == 8      \* longest source contents
MaxEndBytes == 6    \* largest max_bytes
MaxEndOff == 5      \* largest distance before the end given to seek
MaxEndSize == 5     \* largest size given to read

\* sources whose byte at offset i - 1 has the value i
SeekEndSources == {[i \in 1..n |-> i] : n \in 0..MaxEndLen}

SeekEndInit ==
    /\ MetaIdle /\ RaceIdle /\ ClientIdle /\ CodecIdle
    /\ srcData \in SeekEndSources
    /\ startPos \in 0..MaxStart
    /\ srcPos = startPos
    /\ maxBytes \in 0..MaxEndBytes
    /\ srcSeekable \in BOOLEAN
    /\ viewClosed = FALSE
    /\ srcClosed = FALSE
    /\ ret = NoRet

SeekEndStep == \E off \in (-MaxEndOff)..1 : Seek(off, 2)
SeekEndReadStep == \E size \in (-1)..MaxEndSize : Read(size)

SeekEndNext ==
    \/ SeekEndStep
    \/ SeekEndReadStep

SpecSeekEnd == SeekEndInit /\ [][SeekEndNext]_vars

----------------------------------------------------------------------------
\* C1: every byte returned by read or readline comes from a source offset in
\* [start, start + max_bytes): none lies before start or at/after start + L.
ReadStaysInView ==
    (ret.op \in {"read", "readline"} /\ Len(ret.data) > 0) =>
        /\ ret.from >= startPos
        /\ ret.from + Len(ret.data) <= startPos + maxBytes

\* C2: a second call of _initialize_endpoint_metadata leaves both maps as
\* the first call left them (same keys, same values, no duplicated entry).
SecondInitChangesNothing ==
    [][(initDone /\ clients' = clients) =>
          /\ minVersionForEndpoints' = minVersionForEndpoints
          /\ onPremiseOnlyEndpoints' = onPremiseOnlyEndpoints]_vars

\* C3: when both threads have left _initialize_endpoint_metadata, the maps
\* are what one uninterleaved build from empty maps produces.
RaceBuildsAsSingleBuild ==
    (\A t \in Threads : tpc[t] = "done") =>
        CurrentMaps = ScanAll(EmptyMaps, ScanList(clients))

----------------------------------------------------------------------------
\* Lexicographic order on (major, minor), as the claims state it

LexLess(a, b) == IF a[1] # b[1] THEN a[1] < b[1] ELSE a[2] < b[2]
LexLeq(a, b) == a = b \/ LexLess(a, b)

\* the version the last constructor call asked for
Requested == <<ctor.version[1].val, IF Len(ctor.version) >= 2 THEN ctor.version[2].val ELSE 0>>
Built == client.exists /\ ctor.err = "none"

\* C5: the negotiated version of a constructed client lies in
\* [_MIN_VERSION, _MAX_VERSION], and a request above _MAX_VERSION yields
\* _MAX_VERSION.
NegotiatedVersionInRange ==
    Built =>
        /\ LexLeq(MIN_VERSION, client.api_version)
        /\ LexLeq(client.api_version, MAX_VERSION)
        /\ LexLess(MAX_VERSION, Requested) => client.api_version = MAX_VERSION

NegotiatedAboveCeilingWitness ==
    Built /\ LexLess(MAX_VERSION, Requested) /\ client.api_version = MAX_VERSION

\* C6: a requested version inside [_MIN_VERSION, _MAX_VERSION] is negotiated
\* unchanged.
InRangeRequestKept ==
    (Built /\ LexLeq(MIN_VERSION, Requested) /\ LexLeq(Requested, MAX_VERSION)) =>
        client.api_version = Requested

\* C7: the gate's key is m without a namespace and "ns.m" with one, and the
\* version error is raised exactly when the key has a required version above
\* the negotiated one.
Checked == gate.outcome # "none"
VersionTooOld ==
    /\ gate.key \in DOMAIN minVersionForEndpoints
    /\ LexLess(client.api_version, minVersionForEndpoints[gate.key])

GateVersionErrorExact ==
    Checked =>
        /\ gate.key = IF gate.ns = <<>> THEN gate.name ELSE gate.ns \o <<".">> \o gate.name
        /\ (gate.outcome = "TableauApiVersionException") <=> VersionTooOld

GateVersionErrorWitness ==
    /\ Checked /\ gate.ns # <<>>
    /\ gate.outcome = "TableauApiVersionException"
    /\ client.api_version[2] > minVersionForEndpoints[gate.key][2]

\* the host ends with ".tableau.com"
HostedHost ==
    /\ Len(client.host) >= 3
    /\ SubSeq(client.host, Len(client.host) - 1, Len(client.host)) = <<"tableau", "com">>
OnPremiseOnlyKey == \E i \in 1..Len(onPremiseOnlyEndpoints) : onPremiseOnlyEndpoints[i] = gate.key

\* C8 as stated: an on-premise-only key on a hosted address fails with
\* TableauOnlineNotSupportedException before any transport request.
OnPremiseOnlyFailsOnline ==
    (Checked /\ OnPremiseOnlyKey /\ HostedHost) =>
        /\ gate.outcome = "TableauOnlineNotSupportedException"
        /\ gate.sent = 0

\* C8 amended: an on-premise-only key on a hosted address fails before any
\* transport request, with TableauApiVersionException when the key's
\* required version is above the negotiated one and with
\* TableauOnlineNotSupportedException otherwise.
OnPremiseOnlyFailsBeforeTransport ==
    (Checked /\ OnPremiseOnlyKey /\ HostedHost) =>
        /\ gate.sent = 0
        /\ gate.outcome = IF VersionTooOld THEN "TableauApiVersionException"
                          ELSE "TableauOnlineNotSupportedException"

OnPremiseOnlyWitness ==
    /\ Checked /\ OnPremiseOnlyKey /\ HostedHost
    /\ gate.outcome = "TableauOnlineNotSupportedException"
    /\ gate.key \in DOMAIN minVersionForEndpoints

----------------------------------------------------------------------------
\* The decoded content cannot be parsed into the response envelope
Unparsable == ParseFails(ReadResponseString(dec.content), respSlots)

\* C4: both decode operations raise on content that cannot be parsed into a
\* TsResponse envelope; neither returns absent values for it.
UnparsableDecodeRaises ==
    (dec.op # "none" /\ Unparsable) => dec.err # "none"

\* the slots of an envelope that hold something
Populated(env) == {i \in 1..Len(env) : env[i].items # <<>>}

\* an object was encoded into an envelope that has a slot of its type, and
\* the response envelope has the same slots
EncodedTyped ==
    /\ enc.obj # Absent /\ enc.err = "none"
    /\ reqSlots = respSlots
    /\ \E i \in 1..Len(reqSlots) : reqSlots[i].type = enc.obj.type

\* C9: encoding an instance of a slot's type populates that slot and no
\* other; decoding the document for that type returns the instance, and
\* decoding it for another type returns absent.
EncodeDecodeRoundTrip ==
    EncodedTyped =>
        /\ Populated(enc.env) = {enc.slot}
        /\ reqSlots[enc.slot].type = enc.obj.type
        /\ enc.env[enc.slot].items = <<enc.obj>>
        /\ dec.op = "one" =>
              /\ dec.err = "none"
              /\ dec.r1 = IF dec.t1 = enc.obj.type THEN enc.obj ELSE Absent

RoundTripWitness ==
    /\ EncodedTyped /\ enc.obj.type = "TypeX" /\ reqSlots[enc.slot].name = <<"a">>
    /\ reqSlots[1].type = "TypeY"
    /\ dec.op = "one" /\ dec.t1 = "TypeX" /\ dec.r1 = enc.obj

\* the places of an envelope that hold an instance of type t
Places(env, t) ==
    {<<i, k>> \in (1..Len(env)) \X (1..MaxElems + 1) :
        k <= Len(env[i].items) /\ env[i].items[k].type = t}
At(env, pl) == env[pl[1]].items[pl[2]]

\* a two-target decode of an envelope holding exactly one instance of each
\* of two different targets
OneOfEach ==
    /\ dec.op = "two" /\ dec.env # <<>> /\ dec.t1 # dec.t2
    /\ Cardinality(Places(dec.env, dec.t1)) = 1
    /\ Cardinality(Places(dec.env, dec.t2)) = 1

\* C10: on an envelope with exactly one TypeX and one TypeY instance,
\* _get_response_as_objects returns (the TypeX one, the TypeY one) whichever
\* comes first, and no object in both positions.
BothFoundAndMatched ==
    OneOfEach =>
        /\ \A pl \in Places(dec.env, dec.t1) : dec.r1 = At(dec.env, pl)
        /\ \A pl \in Places(dec.env, dec.t2) : dec.r2 = At(dec.env, pl)
        /\ dec.r1 # dec.r2

BothFoundReversedWitness ==
    /\ OneOfEach /\ dec.t1 = "TypeX" /\ dec.t2 = "TypeY"
    /\ respSlots[1].type = "TypeY"
    /\ dec.r1.type = "TypeX" /\ dec.r2.type = "TypeY" /\ dec.r1.id = dec.r2.id

----------------------------------------------------------------------------
\* the payload's type name and a field's name as the fallback compares them
CleanedTypeName(t) ==
    RemoveAll(RemoveAll(LowerName(ClassName(t)), <<"t", "y", "p", "e">>), <<"_">>)
CleanedSlotName(n) == RemoveAll(LowerName(n), <<"_">>)

\* no TsRequest field has the payload's type, by class or by class name
NoSlotOfType ==
    \A i \in 1..Len(reqSlots) :
        /\ reqSlots[i].type # enc.obj.type
        /\ ClassName(reqSlots[i].type) # ClassName(enc.obj.type)

\* neither cleaned name occurs inside the other, for every field
NoNameOverlap ==
    \A i \in 1..Len(reqSlots) :
        LET tn == CleanedTypeName(enc.obj.type)
            sn == CleanedSlotName(reqSlots[i].name)
        IN /\ ~Contains(tn, sn)
           /\ ~Contains(sn, tn)

\* C11: a payload that matches no TsRequest field by type and whose cleaned
\* type name overlaps no cleaned field name makes
\* _get_object_as_request_content raise ValueError: no field is populated
\* and the call yields no document.
UnmappablePayloadRaises ==
    (enc.obj # Absent /\ NoSlotOfType /\ NoNameOverlap) =>
        /\ enc.err = "ValueError"
        /\ enc.slot = 0
        /\ Populated(enc.env) = {}

UnmappablePayloadWitness ==
    /\ enc.obj.type = "TypeZ" /\ enc.err = "ValueError"
    /\ NoSlotOfType /\ NoNameOverlap
    /\ Len(reqSlots) = 2

----------------------------------------------------------------------------
\* the arguments of the awaited constructor call are among those the
\* constructor rejects: empty base address, a version part that is not a
\* number, a version below _MIN_VERSION, a timeout of an unsupported type
UnparsableVersion ==
    \E i \in 1..Len(ctor.version) : i <= 2 /\ ~ctor.version[i].int
RejectedArguments ==
    \/ ctor.uri.kind = "empty"
    \/ UnparsableVersion
    \/ LexLess(Requested, MIN_VERSION)
    \/ ctor.timeout.kind = "other"

\* C12: a constructor call with a version below _MIN_VERSION, an empty base
\* address, an unparsable version or an unsupported timeout type ends in an
\* error, instantiates no sub-client, does not initialise the endpoint
\* metadata, leaves both endpoint maps as they were and yields no client.
RejectedConstructionBuildsNothing ==
    [][(ctor.err = "pending" /\ ctor'.err # "pending" /\ RejectedArguments) =>
          /\ ctor'.err \in {"ValueError", "TypeError"}
          /\ client' = client /\ ~client'.exists /\ client'.subclients = <<>>
          /\ minVersionForEndpoints' = minVersionForEndpoints
          /\ onPremiseOnlyEndpoints' = onPremiseOnlyEndpoints
          /\ initDone' = initDone]_vars

RejectedBelowMinimumWitness ==
    /\ ctor.err = "ValueError" /\ ~UnparsableVersion
    /\ ctor.uri.kind = "str" /\ ctor.timeout.kind = "none"
    /\ Requested = <<1, 24>>
    /\ ~client.exists /\ ~initDone /\ minVersionForEndpoints = EmptyMap

----------------------------------------------------------------------------
\* min(L, max(0, sourceLength - start)) when the source can be probed,
\* L when it cannot
EffectiveLength ==
    LET beyond == IF Len(srcData) > startPos THEN Len(srcData) - startPos ELSE 0
    IN IF ~srcSeekable THEN maxBytes
       ELSE IF maxBytes < beyond THEN maxBytes ELSE beyond

\* the k source bytes that follow source offset from
SourceBytes(from, k) == [i \in 1..k |-> srcData[from + i]]

\* the view has just been constructed: nothing has been called on it
Fresh == ret = NoRet

\* a first read(n), n >= 0 or n = -1: at most min(n, effectiveLength) bytes,
\* never more than L, the source bytes from P on
FreshReadStep ==
    \A n \in (-1)..MaxSize :
        (Fresh /\ Read(n)) =>
            LET k == Len(ret'.data)
            IN /\ k <= EffectiveLength /\ k <= maxBytes
               /\ (n >= 0 => k <= n)
               /\ (k > 0 => startPos + k <= Len(srcData))
               /\ ret'.data = SourceBytes(startPos, k)
               /\ srcPos' = startPos + k

\* a read at tell() >= effectiveLength
ExhaustedReadStep ==
    (ret'.op = "read" /\ srcPos - startPos >= EffectiveLength) =>
        /\ ret'.data = <<>>
        /\ srcPos' = srcPos /\ srcData' = srcData

\* C13: on a fresh PartialStream tell() is 0 and read(n), n >= 0 or n = -1,
\* returns at most min(n, effectiveLength) bytes (at most effectiveLength
\* for n = -1), never more than L, and they are the source bytes from P on;
\* a read at tell() >= effectiveLength returns empty and leaves the source
\* where it was.
FreshReadClamped ==
    /\ [](Fresh => srcPos - startPos = 0)
    /\ [][FreshReadStep /\ ExhaustedReadStep]_vars

FreshReadWitness ==
    /\ ret.op = "read" /\ ret.from = startPos /\ startPos > 0
    /\ maxBytes > 0 /\ Len(ret.data) = maxBytes
    /\ Len(srcData) > startPos + maxBytes
    /\ srcPos = startPos + maxBytes

----------------------------------------------------------------------------
\* a seek(offset, SEEK_END) that returns leaves the view at
\* effectiveLength + offset, which for offset 0 is at most L
SeekFromEndStep ==
    \A off \in (-MaxEndOff)..1 :
        (ret'.op = "seek" /\ ret'.err = "none" /\ Seek(off, 2)) =>
            /\ srcSeekable
            /\ srcPos' - startPos = EffectiveLength + off
            /\ (off = 0 => srcPos' - startPos <= maxBytes)
            /\ srcData' = srcData

\* read(5) right after seek(-5, SEEK_END), the source holding at least L
\* bytes beyond P and L >= 5
ReadLastFiveStep ==
    (/\ ret.op = "seek" /\ ret.err = "none"
     /\ maxBytes >= 5 /\ Len(srcData) - startPos >= maxBytes
     /\ srcPos = startPos + maxBytes - 5
     /\ ret'.op = "read" /\ Read(5)) =>
        /\ ret'.data = SourceBytes(startPos + maxBytes - 5, 5)
        /\ srcPos' = startPos + maxBytes

\* C14: seek(offset, SEEK_END) places the view at effectiveLength + offset;
\* seek(0, SEEK_END) then tell() gives effectiveLength (<= L); with at least
\* L >= 5 source bytes beyond P, seek(-5, SEEK_END) then read(5) returns the
\* source bytes [P+L-5, P+L).
SeekFromEndPlacesAtLength ==
    [][SeekFromEndStep /\ ReadLastFiveStep]_vars

ReadLastFiveWitness ==
    /\ ret.op = "read" /\ Len(ret.data) = 5
    /\ maxBytes >= 5 /\ startPos > 0
    /\ ret.from = startPos + maxBytes - 5
    /\ Len(srcData) > startPos + maxBytes
    /\ ret.data[5] = startPos + maxBytes

----------------------------------------------------------------------------
\* the source index of the last byte the view may deliver
ViewEnd ==
    IF startPos + EffectiveLength < Len(srcData)
    THEN startPos + EffectiveLength ELSE Len(srcData)

\* the source indexes, from the current position to the effective end, that
\* hold a newline
NewlinesAhead == {i \in (srcPos + 1)..ViewEnd : srcData[i] = 10}
FirstNewline == CHOOSE i \in NewlinesAhead : \A j \in NewlinesAhead : i <= j

\* C15: readline() at tell() < effectiveLength returns the source bytes from
\* the current position through the first newline before the effective end,
\* or up to the effective end when there is none; it consumes no byte at or
\* beyond start + effectiveLength, and returns empty at
\* tell() >= effectiveLength.
ReadlineStopsAtNewlineOrEnd ==
    [][(ret'.op = "readline" /\ Readline(-1)) =>
          IF srcPos - startPos >= EffectiveLength
          THEN ret'.data = <<>> /\ srcPos' = srcPos
          ELSE /\ srcPos' <= startPos + EffectiveLength
               /\ IF NewlinesAhead # {}
                  THEN /\ ret'.data = SubSeq(srcData, srcPos + 1, FirstNewline)
                       /\ ret'.data[Len(ret'.data)] = 10
                       /\ srcPos' = FirstNewline
                  ELSE /\ ret'.data = SubSeq(srcData, srcPos + 1, ViewEnd)
                       /\ srcPos' = IF ViewEnd > srcPos THEN ViewEnd ELSE srcPos]_vars

ReadlineNewlineWitness ==
    /\ ret.op = "readline" /\ Len(ret.data) >= 2
    /\ ret.data[Len(ret.data)] = 10
    /\ ret.from >= startPos
    /\ ret.from + Len(ret.data) < startPos + EffectiveLength

----------------------------------------------------------------------------
\* C16: close() on the view, called directly or by leaving a with-block,
\* leaves the source open with its position and contents as they were, and
\* the source stays open and readable afterwards.
CloseKeepsSourceOpen ==
    /\ [](viewClosed => ~srcClosed)
    /\ [][ret'.op = "close" =>
              /\ viewClosed'
              /\ ~srcClosed'
              /\ srcPos' = srcPos
              /\ srcData' = srcData]_vars

ReadAfterCloseWitness ==
    /\ viewClosed /\ ~srcClosed
    /\ ret.op = "read" /\ Len(ret.data) > 0
    /\ ret.data = SourceBytes(ret.from, Len(ret.data))

----------------------------------------------------------------------------
\* the frames of a call chain whose receiver is neither missing nor a
\* TableauApiClient and has a class found in the registry
RegisteredFrames(frames) ==
    {i \in 1..Len(frames) :
        /\ frames[i].recv # "none" /\ frames[i].recv # MainClass
        /\ \E j \in 1..Len(clients) : clients[j].cls = frames[i].recv}
Innermost(frames) ==
    CHOOSE i \in RegisteredFrames(frames) : \A k \in RegisteredFrames(frames) : i <= k
NamesOf(cls) == {j \in 1..Len(clients) : clients[j].cls = cls}

\* the name the registry gives the innermost registered frame (the first
\* one registered when the class has several), <<>> when there is no such
\* frame
NamespaceOf(frames) ==
    IF RegisteredFrames(frames) = {} THEN <<>>
    ELSE LET cls == frames[Innermost(frames)].recv
         IN clients[CHOOSE j \in NamesOf(cls) : \A k \in NamesOf(cls) : j <= k].type

\* C17: for every call chain, _detect_client_namespace passes over frames
\* without receiver or with a TableauApiClient receiver, returns the
\* registry name of the innermost frame whose receiver's class is
\* registered, and none when there is no such frame; it always returns.
NamespaceOfInnermostRegistered ==
    [][\A m \in MethodNames, fr \in CallChains :
          (gate'.outcome # "none" /\ CheckEndpointAvailability(m, fr)) =>
              gate'.ns = NamespaceOf(fr)]_vars

NamespaceSecondRegisteredWitness ==
    /\ Checked /\ gate.ns = <<"j">> /\ gate.name = <<"q">>
    /\ Len(clients) = 2 /\ clients[2].type = <<"j">>
    /\ clients[1].cls # clients[2].cls
    /\ gate.key = <<"j", ".", "q">>

----------------------------------------------------------------------------
\* the maps have been built with at least one minimum-version entry
BuiltWithVersions == DOMAIN minVersionForEndpoints # {}

\* the registry positions a registration has just written
Registered == {i \in 1..Len(clients') : i > Len(clients) \/ clients'[i] # clients[i]}
\* the same, for a name the registry did not hold
RegisteredNew == {i \in 1..Len(clients') : i > Len(clients)}

\* the gate keys of the public operations of the sub-client at position i
OperationKeys(i) ==
    {clients'[i].type \o <<".">> \o classDefs[clients'[i].cls][k].name :
        k \in {j \in 1..Len(classDefs[clients'[i].cls]) :
                  classDefs[clients'[i].cls][j].name[1] # "_"}}

InMaps(key) ==
    \/ key \in DOMAIN minVersionForEndpoints'
    \/ \E n \in 1..Len(onPremiseOnlyEndpoints') : onPremiseOnlyEndpoints'[n] = key

\* a gate check of key by the constructed client raises
GateRaises(key) ==
    \/ /\ key \in DOMAIN minVersionForEndpoints'
       /\ LexLess(client'.api_version, minVersionForEndpoints'[key])
    \/ /\ \E n \in 1..Len(onPremiseOnlyEndpoints') : onPremiseOnlyEndpoints'[n] = key
       /\ Len(client'.host) >= 3
       /\ SubSeq(client'.host, Len(client'.host) - 1, Len(client'.host)) = <<"tableau", "com">>

MapsFrozen ==
    /\ minVersionForEndpoints' = minVersionForEndpoints
    /\ onPremiseOnlyEndpoints' = onPremiseOnlyEndpoints

====
